---- MODULE Spec2Model ----
(***************************************************************************)
(* Model of the Telemarketing Analysis dashboard (src/app_7.py).           *)
(*                                                                         *)
(* The script main() is re-executed from top to bottom on every committed  *)
(* interaction (file upload, form submission).  One execution is a pure    *)
(* function of the uploaded table and of the committed form values; it is  *)
(* modelled by RunScript.  The session state is the uploaded file, the     *)
(* form's pending (unsent) values, the committed values, and the page the  *)
(* last execution rendered.                                                *)
(*                                                                         *)
(* Numbers are exact rationals n/d (floating-point rounding of the         *)
(* percentages is not modelled).  A missing cell is NaN.                   *)
(***************************************************************************)
EXTENDS Integers, Sequences, FiniteSets

\* ------------------------------------------------------------------ bounds
\* Largest number of rows of an uploaded table.
MaxRows == 2

\* Largest number of form widgets changed from their defaults in the selection
\* prepared for one execution (RunSpec).
MaxChanged == 2

\* Largest number of form widgets whose pending value differs from its default
\* at any time of a session (Spec).
MaxSessionChanged == 1

\* ------------------------------------------------------------------- cells
Num(n, d) == [k |-> "num", n |-> n, d |-> d]
Str(s) == [k |-> "str", s |-> s]
NaN == [k |-> "nan"]

IsNaN(c) == c.k = "nan"

\* a <= b on numeric cells (a comparison with NaN is False, as in pandas)
NumLeq(a, b) == a.k = "num" /\ b.k = "num" /\ a.n * b.d <= b.n * a.d

\* Python int(x) on a non-negative number: truncation
PyInt(c) == c.n \div c.d

\* --------------------------------------------------------------- sequences
RECURSIVE SeqToSet(_)
SeqToSet(s) == IF s = <<>> THEN {} ELSE {Head(s)} \cup SeqToSet(Tail(s))

Contains(s, x) == \E i \in 1..Len(s) : s[i] = x

Positions(n) == [i \in 1..n |-> i]

\* ---------------------------------------------------------------- columns
AgeCol == "age"
TargetCol == "y"

\* the categorical columns, in the order of the filter chain
CatCols ==
    <<"job", "marital", "default", "housing", "loan", "contact", "month",
      "day_of_week">>

CatColSet == SeqToSet(CatCols)

AllColumns == <<AgeCol>> \o CatCols \o <<TargetCol>>

\* ------------------------------------------------------------- data frames
\* A DataFrame: the column names in order, the index labels, and the rows
\* (each a function from column name to cell).
Frame(columns, index, rows) ==
    [columns |-> columns, index |-> index, rows |-> rows]

HasColumn(df, col) == Contains(df.columns, col)

NRows(df) == Len(df.rows)

\* df[mask]: the rows at the kept positions, with their index labels
Take(df, kept) ==
    Frame(df.columns,
          [j \in 1..Len(kept) |-> df.index[kept[j]]],
          [j \in 1..Len(kept) |-> df.rows[kept[j]]])

\* DataFrame.reset_index(drop=True)
ResetIndex(df) ==
    Frame(df.columns, [j \in 1..NRows(df) |-> Num(j - 1, 1)], df.rows)

\* Series.isin(values) on one cell
IsIn(cell, values) == cell.k = "str" /\ cell.s \in values

\* Series.max() / Series.min(): missing cells are skipped; NaN when none is left
SeriesMax(df, col) ==
    LET present == {i \in 1..NRows(df) : ~IsNaN(df.rows[i][col])}
    IN  IF present = {} THEN NaN
        ELSE df.rows[CHOOSE i \in present :
                        \A j \in present :
                            NumLeq(df.rows[j][col], df.rows[i][col])][col]

SeriesMin(df, col) ==
    LET present == {i \in 1..NRows(df) : ~IsNaN(df.rows[i][col])}
    IN  IF present = {} THEN NaN
        ELSE df.rows[CHOOSE i \in present :
                        \A j \in present :
                            NumLeq(df.rows[i][col], df.rows[j][col])][col]

\* Series.unique().tolist(): the distinct values in order of first appearance
Unique(df, col) ==
    LET first == SelectSeq(Positions(NRows(df)),
                     LAMBDA i : \A j \in 1..(i - 1) :
                                    df.rows[j][col] # df.rows[i][col])
    IN  [j \in 1..Len(first) |-> df.rows[first[j]][col].s]

\* ------------------------------------------------------------ filter engine
\* bank.query("age >= @idades[0] and age <= @idades[1]")
AgeQuery(df, idades) ==
    Take(df, SelectSeq(Positions(NRows(df)),
                 LAMBDA i : /\ NumLeq(Num(idades[1], 1), df.rows[i][AgeCol])
                            /\ NumLeq(df.rows[i][AgeCol], Num(idades[2], 1))))

\* faulty variant: the kept rows come out in reverse order
multiselect_filter_reversed(relatorio, col, selecionados) ==
    IF "all" \in selecionados
    THEN relatorio
    ELSE LET kept == SelectSeq(Positions(NRows(relatorio)),
                         LAMBDA i : IsIn(relatorio.rows[i][col], selecionados))
         IN  ResetIndex(
                 Take(relatorio,
                      [j \in 1..Len(kept) |-> kept[Len(kept) + 1 - j]]))

\* faulty variant: an empty selection is taken for 'all'
multiselect_filter_lenient(relatorio, col, selecionados) ==
    IF "all" \in selecionados \/ selecionados = {}
    THEN relatorio
    ELSE ResetIndex(
             Take(relatorio,
                  SelectSeq(Positions(NRows(relatorio)),
                      LAMBDA i : IsIn(relatorio.rows[i][col], selecionados))))

multiselect_filter(relatorio, col, selecionados) ==
    IF "all" \in selecionados
    THEN relatorio
    ELSE ResetIndex(
             Take(relatorio,
                  SelectSeq(Positions(NRows(relatorio)),
                      LAMBDA i : IsIn(relatorio.rows[i][col], selecionados))))

\* faulty variant: every pipe filters the table the chain started from, not the
\* output of the pipe before it
PipeChain_unchained(df, selected, k) ==
    IF k = 0 THEN df
    ELSE multiselect_filter(df, CatCols[k], selected[CatCols[k]])

\* .pipe(multiselect_filter, col, selected) for the first k categorical columns
RECURSIVE PipeChain(_, _, _)
PipeChain(df, selected, k) ==
    IF k = 0 THEN df
    ELSE multiselect_filter(PipeChain(df, selected, k - 1), CatCols[k],
                            selected[CatCols[k]])

\* the method chain of the form: the age query, then the eight pipes
FilterChain(df, sel) ==
    PipeChain(AgeQuery(df, sel.idades), sel.cats, Len(CatCols))

\* --------------------------------------------------------------- aggregator
\* Python's order on the outcome labels that occur in the uploads
Rank(s) == CASE s = "no" -> 1 [] s = "yes" -> 2

\* Series.value_counts(normalize=True): missing values are dropped, each
\* distinct value gets count / (number of non-missing values), most frequent
\* first (equal counts in order of first appearance)
value_counts(df, col) ==
    LET present == SelectSeq(Positions(NRows(df)),
                       LAMBDA i : ~IsNaN(df.rows[i][col]))
        first == SelectSeq(present,
                     LAMBDA i : \A j \in 1..(i - 1) :
                                    df.rows[j][col] # df.rows[i][col])
        n == Len(first)
        Count(i) ==
            Cardinality({j \in 1..NRows(df) : df.rows[j][col] = df.rows[i][col]})
        Before(a, b) ==
            Count(first[a]) > Count(first[b])
                \/ (Count(first[a]) = Count(first[b]) /\ a < b)
        At(p) ==
            CHOOSE a \in 1..n : Cardinality({b \in 1..n : Before(b, a)}) = p - 1
    IN  [p \in 1..n |->
            [value |-> df.rows[first[At(p)]][col],
             share |-> Num(Count(first[At(p)]), Len(present))]]

\* .to_frame() * 100, with the column renamed to 'percentage'
to_frame_percentage(counts) ==
    Frame(<<"percentage">>,
          [p \in 1..Len(counts) |-> counts[p].value],
          [p \in 1..Len(counts) |->
              [percentage |-> Num(counts[p].share.n * 100, counts[p].share.d)]])

\* faulty variant: the order of value_counts (by frequency) is kept
sort_index_skipped(df) == df

\* DataFrame.sort_index(): ascending by index label
sort_index(df) ==
    LET n == NRows(df)
        At(p) ==
            CHOOSE a \in 1..n :
                Cardinality({b \in 1..n :
                    Rank(df.index[b].s) < Rank(df.index[a].s)}) = p - 1
    IN  Take(df, [p \in 1..n |-> At(p)])

\* the target distribution of a table that has the column y
target_perc(df) == sort_index(to_frame_percentage(value_counts(df, TargetCol)))

\* ----------------------------------------------------------------- exporter
\* one worksheet cell: a number, a text, or a blank for a missing value
XlCell(c) ==
    CASE c.k = "num" -> [t |-> "n", n |-> c.n, d |-> c.d]
      [] c.k = "str" -> [t |-> "s", s |-> c.s]
      [] c.k = "nan" -> [t |-> "blank"]

\* df.to_excel(writer, index=False, sheet_name='Sheet1'): a header row with the
\* column names, then one worksheet row per row; the index is not written
to_excel(df) ==
    [header |-> df.columns,
     cells |-> [i \in 1..NRows(df) |->
                   [j \in 1..Len(df.columns) |-> XlCell(df.rows[i][df.columns[j]])]]]

\* pd.read_excel on an exported worksheet
FromXlCell(x) ==
    CASE x.t = "n" -> Num(x.n, x.d)
      [] x.t = "s" -> Str(x.s)
      [] x.t = "blank" -> NaN

read_excel(sheet) ==
    ResetIndex(
        Frame(sheet.header, <<>>,
              [i \in 1..Len(sheet.cells) |->
                  [c \in SeqToSet(sheet.header) |->
                      FromXlCell(sheet.cells[i][
                          CHOOSE j \in 1..Len(sheet.header) :
                              sheet.header[j] = c])]]))

\* --------------------------------------------------------------------- form
\* the widgets of the sidebar form, in the order the script creates them
FormWidgets == <<"graph_type", AgeCol>> \o CatCols

WidgetSet == SeqToSet(FormWidgets)

\* the exception raised by the lines that create widget w, "none" when they run:
\* bank.<col> raises AttributeError when the column is absent, and int() of the
\* NaN that max() gives for an age column without values raises ValueError
WidgetError(df, w) ==
    CASE w = "graph_type" -> "none"
      [] w = AgeCol ->
            IF ~HasColumn(df, AgeCol) THEN "AttributeError"
            ELSE IF IsNaN(SeriesMax(df, AgeCol)) THEN "ValueError"
            ELSE "none"
      [] OTHER -> IF HasColumn(df, w) THEN "none" ELSE "AttributeError"

\* position of the first widget whose creation raises, 0 when the form completes
FirstFailure(df) ==
    LET bad == {i \in 1..Len(FormWidgets) : WidgetError(df, FormWidgets[i]) # "none"}
    IN  IF bad = {} THEN 0 ELSE CHOOSE i \in bad : \A j \in bad : i <= j

max_age(df) == PyInt(SeriesMax(df, AgeCol))
min_age(df) == PyInt(SeriesMin(df, AgeCol))

\* <col>_list: the distinct values of the column, then 'all'
OptionsList(df, col) == Unique(df, col) \o <<"all">>

\* the arguments a widget is created with; they identify it between two runs
WidgetParams(df, w) ==
    CASE w = "graph_type" -> <<"Bar", "Pie">>
      [] w = AgeCol -> <<min_age(df), max_age(df)>>
      [] OTHER -> OptionsList(df, w)

\* the value a widget returns before the user touches it
WidgetDefault(df, w) ==
    CASE w = "graph_type" -> "Bar"
      [] w = AgeCol -> <<min_age(df), max_age(df)>>
      [] OTHER -> {"all"}

\* a widget the script did not create holds nothing
WidgetBlank(w) ==
    CASE w = "graph_type" -> "Bar"
      [] w = AgeCol -> <<0, 0>>
      [] OTHER -> {"all"}

NoWidget(w) == [rendered |-> FALSE, params |-> <<>>, default |-> WidgetBlank(w)]

NoForm == [w \in WidgetSet |-> NoWidget(w)]

BlankForm == [w \in WidgetSet |-> WidgetBlank(w)]

\* the widgets one execution creates: those before the first failing line
Form(df) ==
    LET fail == FirstFailure(df)
    IN  [w \in WidgetSet |->
            IF fail = 0 \/ (CHOOSE i \in 1..Len(FormWidgets) : FormWidgets[i] = w) < fail
            THEN [rendered |-> TRUE, params |-> WidgetParams(df, w),
                  default |-> WidgetDefault(df, w)]
            ELSE NoWidget(w)]

\* the form reached st.form_submit_button
FormCompletes(form) == \A w \in WidgetSet : form[w].rendered

\* the values a widget can be set to
WidgetValues(form, w) ==
    CASE w = "graph_type" -> SeqToSet(form[w].params)
      [] w = AgeCol ->
            {r \in (form[w].params[1]..form[w].params[2])
                     \X (form[w].params[1]..form[w].params[2]) : r[1] <= r[2]}
      [] OTHER -> SUBSET SeqToSet(form[w].params)

\* the values of the widgets nobody touched
DefaultValues(form) == [w \in WidgetSet |-> form[w].default]

\* what the script reads from the form widgets
Selection(values) ==
    [graph_type |-> values["graph_type"],
     idades |-> values[AgeCol],
     cats |-> [c \in CatColSet |-> values[c]]]

\* ------------------------------------------------------------------- script
NoFrame == Frame(<<>>, <<>>, <<>>)

\* the page before any file is uploaded: only the upload control
EmptyPage ==
    [status |-> "no_file", error |-> "none", rendered |-> <<>>,
     messages |-> <<>>, form |-> NoForm, bank_raw |-> NoFrame,
     bank |-> NoFrame, graph_type |-> "Bar",
     has_raw_perc |-> FALSE, bank_raw_target_perc |-> NoFrame,
     has_perc |-> FALSE, bank_target_perc |-> NoFrame,
     downloads |-> <<>>, chart |-> "none"]

\* one execution of main() on the uploaded table with the committed form
\* values, the chart calls returning
RunScript(bank_raw, form, values) ==
    IF ~FormCompletes(form)
    THEN \* uncaught exception inside the form: the run stops there
         [EmptyPage EXCEPT
            !.status = "aborted",
            !.error = WidgetError(bank_raw, FormWidgets[FirstFailure(bank_raw)]),
            !.rendered = <<"raw_preview", "columns">>,
            !.form = form,
            !.bank_raw = bank_raw,
            !.bank = bank_raw]
    ELSE
    LET sel == Selection(values)
        bank == FilterChain(bank_raw, sel)
        raw_y == HasColumn(bank_raw, TargetCol)
        y == HasColumn(bank, TargetCol)
        bank_raw_target_perc == IF raw_y THEN target_perc(bank_raw) ELSE NoFrame
        bank_target_perc == IF y THEN target_perc(bank) ELSE NoFrame
    IN  [status |-> "done",
         error |-> "none",
         rendered |->
            <<"raw_preview", "columns", "form", "filtered_preview",
              "download_filtered", "columns_after">>
            \o (IF raw_y THEN <<"raw_perc">> ELSE <<>>)
            \o (IF y THEN <<"perc">> ELSE <<>>)
            \o (IF raw_y THEN <<"download_raw_y">> ELSE <<>>)
            \o (IF y THEN <<"download_y">> ELSE <<>>)
            \o (IF raw_y /\ y THEN <<"chart">> ELSE <<>>),
         messages |->
            (IF raw_y THEN <<>> ELSE <<"'y' column is missing in the raw data!">>)
            \o (IF y THEN <<>>
                ELSE <<"'y' column is missing in the filtered data!">>),
         form |-> form,
         bank_raw |-> bank_raw,
         bank |-> bank,
         graph_type |-> sel.graph_type,
         has_raw_perc |-> raw_y,
         bank_raw_target_perc |-> bank_raw_target_perc,
         has_perc |-> y,
         bank_target_perc |-> bank_target_perc,
         downloads |->
            <<[file_name |-> "bank_filtered.xlsx", data |-> to_excel(bank)]>>
            \o (IF raw_y
                THEN <<[file_name |-> "bank_raw_y.xlsx",
                        data |-> to_excel(bank_raw_target_perc)]>>
                ELSE <<>>)
            \o (IF y
                THEN <<[file_name |-> "bank_y.xlsx",
                        data |-> to_excel(bank_target_perc)]>>
                ELSE <<>>),
         chart |-> IF raw_y /\ y THEN sel.graph_type ELSE "none"]

\* the same execution with the chart calls raising: the exception is not
\* caught, the run stops before st.pyplot
ChartRaised(p) ==
    [p EXCEPT !.status = "aborted", !.error = "chart", !.chart = "none",
              !.rendered = SelectSeq(p.rendered, LAMBDA t : t # "chart")]

\* the pages one execution can end with.  The chart calls on a distribution
\* without rows end differently with the plotting library installed (an empty
\* plot, or an exception from the library or from ax.containers[0]); on a
\* distribution with rows they draw.
Pages(p) ==
    IF /\ p.chart # "none"
       /\ (NRows(p.bank_raw_target_perc) = 0 \/ NRows(p.bank_target_perc) = 0)
    THEN {p, ChartRaised(p)}
    ELSE {p}

\* ------------------------------------------------------------------ uploads
\* the categorical values of the sample rows
Profile1 ==
    [job |-> "admin.", marital |-> "married", default |-> "no",
     housing |-> "no", loan |-> "no", contact |-> "cellular", month |-> "may",
     day_of_week |-> "mon"]

Profile2 ==
    [job |-> "blue-collar", marital |-> "single", default |-> "unknown",
     housing |-> "yes", loan |-> "yes", contact |-> "telephone",
     month |-> "jun", day_of_week |-> "tue"]

Profile3 ==
    [job |-> "admin.", marital |-> "single", default |-> "no",
     housing |-> "yes", loan |-> "no", contact |-> "telephone",
     month |-> "may", day_of_week |-> "tue"]

SampleRow(age, profile, y) ==
    [c \in SeqToSet(AllColumns) |->
        IF c = AgeCol THEN age
        ELSE IF c = TargetCol THEN y
        ELSE Str(profile[c])]

\* the rows the uploaded files are made of: whole and fractional ages, a
\* missing age, a missing outcome
SampleRows ==
    {SampleRow(Num(30, 1), Profile1, Str("yes")),
     SampleRow(Num(31, 1), Profile2, Str("no")),
     SampleRow(Num(61, 2), Profile3, NaN),
     SampleRow(NaN, Profile1, Str("yes"))}

\* the columns a file may lack: none, or any one of them
MissingColumns == {{}} \cup {{c} : c \in SeqToSet(AllColumns)}

\* load_data: the table parsed from a file with the given rows, without the
\* missing columns
load_data(rows, missing) ==
    LET columns == SelectSeq(AllColumns, LAMBDA c : c \notin missing)
    IN  ResetIndex(
            Frame(columns, <<>>,
                  [i \in 1..Len(rows) |->
                      [c \in SeqToSet(columns) |-> rows[i][c]]]))

UploadedFiles ==
    {load_data(rows, missing) :
        rows \in UNION {[1..n -> SampleRows] : n \in 0..MaxRows},
        missing \in MissingColumns}

\* -------------------------------------------------------------------- state
VARIABLES
    has_file,   \* data_file_1 is not None
    data_file,  \* the table of the uploaded file
    pending,    \* the form's widget values in the browser, not yet sent
    submitted,  \* the form's widget values the script reads
    page        \* what the last execution of the script rendered

vars == <<has_file, data_file, pending, submitted, page>>

Init ==
    /\ has_file = FALSE
    /\ data_file = NoFrame
    /\ pending = BlankForm
    /\ submitted = BlankForm
    /\ page = EmptyPage

\* the widgets whose value differs from the default
Changed(form, values) == {w \in WidgetSet : values[w] # form[w].default}

\* the user puts a file into the empty uploader: the script runs on it, every
\* widget of the form is new and returns its default
Upload(file) ==
    /\ ~has_file
    /\ has_file' = TRUE
    /\ data_file' = file
    /\ LET form == Form(file)
       IN  /\ pending' = DefaultValues(form)
           /\ submitted' = DefaultValues(form)
           /\ page' \in Pages(RunScript(file, form, submitted'))

\* the user takes the file out of the uploader: the script runs without a
\* file and creates no widget (replacing a file is a removal and an upload)
RemoveFile ==
    /\ has_file
    /\ has_file' = FALSE
    /\ data_file' = NoFrame
    /\ pending' = BlankForm
    /\ submitted' = BlankForm
    /\ page' = EmptyPage

\* faulty variant: the widget is outside the form, so its change is sent at
\* once and the script runs
ChangeWidget_outside_form(w) ==
    /\ has_file
    /\ FormCompletes(page.form)
    /\ LET others == Changed(page.form, pending) \ {w}
       IN  \E v \in WidgetValues(page.form, w) :
              /\ v # pending[w]
              /\ Cardinality(others)
                    + (IF v = page.form[w].default THEN 0 ELSE 1)
                    <= MaxSessionChanged
              /\ pending' = [pending EXCEPT ![w] = v]
    /\ submitted' = [submitted EXCEPT ![w] = pending'[w]]
    /\ page' \in Pages(RunScript(data_file, page.form, submitted'))
    /\ UNCHANGED <<has_file, data_file>>

\* the user changes a widget of the form: nothing is sent to the script
ChangeWidget(w) ==
    /\ has_file
    /\ FormCompletes(page.form)
    /\ LET others == Changed(page.form, pending) \ {w}
       IN  \E v \in WidgetValues(page.form, w) :
              /\ v # pending[w]
              /\ Cardinality(others)
                    + (IF v = page.form[w].default THEN 0 ELSE 1)
                    <= MaxSessionChanged
              /\ pending' = [pending EXCEPT ![w] = v]
    /\ UNCHANGED <<has_file, data_file, submitted, page>>

\* the user presses Apply: the form's values are sent and the script runs
Submit ==
    /\ has_file
    /\ FormCompletes(page.form)
    /\ submitted' = pending
    /\ page' \in Pages(RunScript(data_file, page.form, submitted'))
    /\ UNCHANGED <<has_file, data_file, pending>>

Next ==
    \/ \E file \in UploadedFiles : Upload(file)
    \/ RemoveFile
    \/ \E w \in WidgetSet : ChangeWidget(w)
    \/ Submit

Spec == Init /\ [][Next]_vars

\* One execution on every input: a file is loaded, the user has prepared any
\* selection, and presses Apply.
\* the values the form can hold with at most k widgets changed
RECURSIVE ValuesWithin(_, _)
ValuesWithin(form, k) ==
    IF k = 0 THEN {DefaultValues(form)}
    ELSE LET less == ValuesWithin(form, k - 1)
         IN  less \cup
             UNION {UNION {{[v EXCEPT ![w] = x] : x \in WidgetValues(form, w)} :
                              w \in WidgetSet \ Changed(form, v)} : v \in less}

PreparedValues(form) ==
    IF FormCompletes(form)
    THEN ValuesWithin(form, MaxChanged)
    ELSE {DefaultValues(form)}

RunInit ==
    /\ has_file = TRUE
    /\ data_file \in UploadedFiles
    /\ submitted = DefaultValues(Form(data_file))
    /\ page \in Pages(RunScript(data_file, Form(data_file), submitted))
    /\ pending \in PreparedValues(page.form)

RunNext == Submit

RunSpec == RunInit /\ [][RunNext]_vars

\* ------------------------------------------------------------------- claims
\* the last execution applied the filter chain
Filtered == has_file /\ FormCompletes(page.form)

\* equality of two cells as values (two missing cells in the same place agree)
CellEq(a, b) ==
    /\ a.k = b.k
    /\ CASE a.k = "num" -> a.n * b.d = b.n * a.d
         [] a.k = "str" -> a.s = b.s
         [] OTHER -> TRUE

\* a row satisfies every constraint of a selection: its age lies in the
\* inclusive range and, for each categorical column, the selection holds
\* 'all' or the row's value
Satisfies(row, sel) ==
    /\ NumLeq(Num(sel.idades[1], 1), row[AgeCol])
    /\ NumLeq(row[AgeCol], Num(sel.idades[2], 1))
    /\ \A c \in CatColSet :
          "all" \in sel.cats[c] \/ (row[c].k = "str" /\ row[c].s \in sel.cats[c])

\* s can be obtained from t by deleting elements
RECURSIVE IsSubseq(_, _)
IsSubseq(s, t) ==
    IF s = <<>> THEN TRUE
    ELSE IF t = <<>> THEN FALSE
    ELSE IF Head(s) = Head(t) THEN IsSubseq(Tail(s), Tail(t))
    ELSE IsSubseq(s, Tail(t))

\* C1: the filtered table holds exactly the rows of the original that satisfy
\* every constraint of the submitted selection (none else, none missing), in
\* the original's order.
C1_FilterExact ==
    Filtered =>
        page.bank.rows =
            SelectSeq(page.bank_raw.rows,
                      LAMBDA r : Satisfies(r, Selection(submitted)))

\* two categorical columns are filtered and one row of two is kept
C1_Witness ==
    /\ Filtered
    /\ Cardinality({c \in CatColSet : "all" \notin submitted[c]}) = 2
    /\ NRows(page.bank) = 1
    /\ NRows(page.bank_raw) = 2

\* C2: with the form's default values (all eight selections 'all', the age
\* range from the observed minimum to the observed maximum) the filtered table
\* equals the original table.
C2_IdentityLaw ==
    (Filtered /\ submitted = DefaultValues(page.form)) =>
        /\ page.bank.columns = page.bank_raw.columns
        /\ page.bank.rows = page.bank_raw.rows

\* C3: the filtered table is a row subset of the original: same columns in the
\* same order, its rows are rows of the original in the original's relative
\* order, and the original is the uploaded table, unchanged.
C3_RowSubset ==
    has_file =>
        /\ page.bank_raw = data_file
        /\ page.bank.columns = page.bank_raw.columns
        /\ IsSubseq(page.bank.rows, page.bank_raw.rows)

\* a categorical filter acted and kept two different rows
C3_Witness ==
    /\ Filtered
    /\ \E c \in CatColSet : "all" \notin submitted[c]
    /\ NRows(page.bank) = 2
    /\ page.bank.rows[1] # page.bank.rows[2]

\* C4: an explicitly empty selection for a categorical column makes that
\* column's step of the chain drop every row, and the filtered table has no
\* row, whatever the other selections and wherever the column is in the chain.
C4_StrictEmpty ==
    Filtered =>
        \A k \in 1..Len(CatCols) :
            submitted[CatCols[k]] = {} =>
                /\ NRows(PipeChain(AgeQuery(page.bank_raw, submitted[AgeCol]),
                                   Selection(submitted).cats, k)) = 0
                /\ NRows(page.bank) = 0

\* the last column of the chain has the empty selection, another widget is
\* changed too, and rows reached that last step
C4_Witness ==
    /\ Filtered
    /\ submitted[CatCols[Len(CatCols)]] = {}
    /\ Cardinality(Changed(page.form, submitted)) = 2
    /\ NRows(PipeChain(AgeQuery(page.bank_raw, submitted[AgeCol]),
                       Selection(submitted).cats, Len(CatCols) - 1)) > 0
    /\ NRows(page.bank) = 0

\* the rows of df whose outcome is not missing, and those with outcome v
WithOutcome(df) == {i \in 1..NRows(df) : ~IsNaN(df.rows[i][TargetCol])}

OutcomeIs(df, v) == {i \in 1..NRows(df) : CellEq(df.rows[i][TargetCol], v)}

RECURSIVE SumPercentages(_, _)
SumPercentages(dist, p) ==
    IF p = 0 THEN 0
    ELSE dist.rows[p].percentage.n + SumPercentages(dist, p - 1)

\* dist has one entry per distinct outcome of df, each count * 100 / total,
\* they sum to 100 and are ascending by outcome
IsDistribution(dist, df, total) ==
    /\ \A i \in WithOutcome(df) :
          \E p \in 1..NRows(dist) : CellEq(dist.index[p], df.rows[i][TargetCol])
    /\ \A p \in 1..NRows(dist) :
          /\ OutcomeIs(df, dist.index[p]) # {}
          /\ dist.rows[p].percentage.n * total
                = Cardinality(OutcomeIs(df, dist.index[p])) * 100
                    * dist.rows[p].percentage.d
          /\ dist.rows[p].percentage.d = dist.rows[1].percentage.d
    /\ NRows(dist) > 0
    /\ SumPercentages(dist, NRows(dist)) = 100 * dist.rows[1].percentage.d
    /\ \A p \in 1..(NRows(dist) - 1) :
          Rank(dist.index[p].s) < Rank(dist.index[p + 1].s)

\* C5 as stated: for a table with rows and the column y, each distinct outcome
\* maps to count / number of rows * 100, the percentages sum to 100 and are
\* ascending by outcome, for the raw and for the filtered distribution.
C5_DistributionOverRows ==
    /\ (page.has_raw_perc /\ NRows(page.bank_raw) > 0) =>
          IsDistribution(page.bank_raw_target_perc, page.bank_raw,
                         NRows(page.bank_raw))
    /\ (page.has_perc /\ NRows(page.bank) > 0) =>
          IsDistribution(page.bank_target_perc, page.bank, NRows(page.bank))

\* C5 amended: for a table with the column y and at least one row whose
\* outcome is not missing, each distinct outcome maps to
\* count / number of rows whose outcome is not missing * 100, the percentages
\* sum to 100 and are ascending by outcome, for the raw and for the filtered
\* distribution.
C5_DistributionOverOutcomes ==
    /\ (page.has_raw_perc /\ WithOutcome(page.bank_raw) # {}) =>
          IsDistribution(page.bank_raw_target_perc, page.bank_raw,
                         Cardinality(WithOutcome(page.bank_raw)))
    /\ (page.has_perc /\ WithOutcome(page.bank) # {}) =>
          IsDistribution(page.bank_target_perc, page.bank,
                         Cardinality(WithOutcome(page.bank)))

\* the filtered table keeps a row without outcome beside one with: the one
\* outcome has the whole distribution
C5_Witness ==
    /\ page.has_perc
    /\ NRows(page.bank) = 2
    /\ Cardinality(WithOutcome(page.bank)) = 1
    /\ NRows(page.bank_target_perc) = 1
    /\ page.bank_target_perc.rows[1].percentage = Num(100, 1)

\* C6: when the filtered table has no row, the filtered distribution is not
\* computed, 'no data' is reported, and no later step raises.
C6_EmptyHandled ==
    (Filtered /\ HasColumn(page.bank, TargetCol) /\ NRows(page.bank) = 0) =>
        /\ ~page.has_perc
        /\ Contains(page.messages, "no data")
        /\ page.status = "done"

\* C7: for an uploaded table without the column y the run completes, each
\* distribution step gives its own warning, no distribution is exported, no
\* chart is drawn, and both previews and the filtered export are produced;
\* the filtered table has the column y exactly when the original has.
C7_MissingTarget ==
    /\ (has_file /\ ~HasColumn(data_file, TargetCol)) =>
          /\ page.status = "done"
          /\ page.messages = <<"'y' column is missing in the raw data!",
                               "'y' column is missing in the filtered data!">>
          /\ \A i \in 1..Len(page.downloads) :
                page.downloads[i].file_name = "bank_filtered.xlsx"
          /\ page.chart = "none"
          /\ Contains(page.rendered, "raw_preview")
          /\ Contains(page.rendered, "filtered_preview")
          /\ Contains(page.rendered, "download_filtered")
    /\ has_file =>
          (HasColumn(page.bank, TargetCol) <=> HasColumn(page.bank_raw, TargetCol))

\* C8: when a filter refers to a column the uploaded table lacks, the run is
\* not aborted: a warning is shown and the rest of the page is rendered.
C8_MissingFilterColumn ==
    (has_file /\ \E w \in WidgetSet \ {"graph_type"} : ~HasColumn(data_file, w)) =>
        /\ page.status = "done"
        /\ page.messages # <<>>
        /\ Contains(page.rendered, "filtered_preview")

\* the page is the one the script renders for the uploaded table with the
\* committed values
ShowsCommitted ==
    has_file =>
        page \in Pages(RunScript(data_file, Form(data_file), submitted))

\* a widget change sends nothing: the committed values and the page stay as
\* they are; Apply commits the whole pending selection at once; the committed
\* values are the defaults until the first Apply
BatchStep ==
    /\ (has_file /\ has_file' /\ pending' # pending) =>
          (submitted' = submitted /\ page' = page /\ data_file' = data_file)
    /\ (has_file /\ has_file' /\ (submitted' # submitted \/ page' # page)) =>
          (submitted' = pending /\ pending' = pending)
    /\ (~has_file /\ has_file') => submitted' = DefaultValues(Form(data_file'))

\* C9: the form is a pending-apply batch.  In every state the filtered table,
\* the distributions and the chart type shown are those of the most recently
\* applied selection (the defaults before any Apply); a widget change without
\* Apply changes none of them, and Apply captures the whole selection (age
\* range, eight categorical sets, graph type) together.
C9_PendingApply == []ShowsCommitted /\ [][BatchStep]_vars

\* a selection was applied and a widget was changed since, not yet applied
C9_Witness ==
    /\ has_file
    /\ page.status = "done"
    /\ submitted # DefaultValues(page.form)
    /\ pending # submitted
    /\ page.bank # page.bank_raw

\* a worksheet read back gives the table: same columns in the same order, same
\* values in the same rows
SameTable(parsed, df) ==
    /\ parsed.columns = df.columns
    /\ NRows(parsed) = NRows(df)
    /\ \A i \in 1..NRows(df) :
          \A j \in 1..Len(df.columns) :
              CellEq(parsed.rows[i][df.columns[j]], df.rows[i][df.columns[j]])

\* a worksheet of a distribution read back still has, in every row, the
\* outcome the percentage belongs to
KeepsOutcomes(parsed, dist) ==
    /\ NRows(parsed) = NRows(dist)
    /\ \A p \in 1..NRows(dist) :
          \/ CellEq(parsed.index[p], dist.index[p])
          \/ \E j \in 1..Len(parsed.columns) :
                CellEq(parsed.rows[p][parsed.columns[j]], dist.index[p])

\* C10: every exported worksheet, read back, gives the table that was
\* exported; an exported distribution still associates each outcome with its
\* percentage.
C10_ExportRoundTrip ==
    \A i \in 1..Len(page.downloads) :
        LET parsed == read_excel(page.downloads[i].data)
            name == page.downloads[i].file_name
        IN  CASE name = "bank_filtered.xlsx" -> SameTable(parsed, page.bank)
              [] name = "bank_raw_y.xlsx" ->
                    /\ SameTable(parsed, page.bank_raw_target_perc)
                    /\ KeepsOutcomes(parsed, page.bank_raw_target_perc)
              [] name = "bank_y.xlsx" ->
                    /\ SameTable(parsed, page.bank_target_perc)
                    /\ KeepsOutcomes(parsed, page.bank_target_perc)

====
